---- MODULE Spec2Model ----
(***************************************************************************)
(* IdleDetectorExtension (src/js/idle_detector.js): the activity flag, the *)
(* idle and autosave timers, the focus/visibility poll and the requests    *)
(* the extension sends to the backend.                                     *)
(*                                                                         *)
(* Time is the value of Date.now() relative to construction, in            *)
(* milliseconds.  Every handler runs to completion (the page is single     *)
(* threaded); an async method runs synchronously up to its first await, so *)
(* the fetch of setStatus / autoSaveWorkflow is issued inside the step of  *)
(* the handler that called it, and its response arrives in a later step.   *)
(***************************************************************************)
EXTENDS Integers, Sequences, FiniteSets, Bags, TLC

\* ---------------------------------------------------------------- bounds
MaxTicks == 66            \* the clock stops after MaxTicks poll intervals
MaxFileTicks == 6         \* horizon of the workflow-file specification
MaxInflight == 2          \* requests that may await a response at once
MaxNodes == 1             \* largest node count of a host graph
MaxSetupCalls == 3        \* calls of setupFilenameTracking

\* ------------------------------------------------------- program constants
inactivityThreshold == 60000
autoSaveThreshold == 5000
pollInterval == 1000

SET_ACTIVE == "/idle_detector/set_active"
SET_IDLE == "/idle_detector/set_idle"
AUTOSAVE == "/idle_detector/autosave"
STATUS == "/idle_detector/status"
DefaultFilename == "autosave.json"

\* null / undefined, and a present value
Null == <<>>
Some(x) == <<x>>

\* the names a workflow can be loaded or uploaded under
FileNames == {"foo.json", ""}

VARIABLES
    now,               \* Date.now()
    nextPoll,          \* due time of the next setInterval callback
    hidden,            \* document.hidden
    hasFocus,          \* document.hasFocus()
    isActive,          \* this.isActive
    lastActivityTime,  \* this.lastActivityTime
    activityTimeout,   \* this.activityTimeout: Null or Some(timer)
    autoSaveTimeout,   \* this.autoSaveTimeout: Null or Some(timer)
    idleTimers,        \* pending setTimeout callbacks armed by startIdleTimer
    saveTimers,        \* pending setTimeout callbacks armed by startAutoSaveTimer
    graph_filename,    \* app.graph_filename: Null or Some(name)
    nodes,             \* number of nodes of app.graph
    inflight,          \* bag of requests awaiting their response
    hooks,             \* the host functions setupFilenameTracking wraps
    returned,          \* the last getStatus call that returned, and its value
    setupCalls,        \* history: calls of setupFilenameTracking so far
    lastStatus,        \* history: endpoint of the last status request issued
    statusRepeated,    \* history: did two status requests in a row name one endpoint
    handled,           \* history: has anything happened since construction
    quietSaves,        \* history: autosave POSTs since the last signal
    quietIdles         \* history: changes to idle since the last signal

vars == <<now, nextPoll, hidden, hasFocus, isActive, lastActivityTime,
          activityTimeout, autoSaveTimeout, idleTimers, saveTimers,
          graph_filename, nodes, inflight, hooks, returned, setupCalls,
          lastStatus, statusRepeated, handled, quietSaves, quietIdles>>

envVars == <<hidden, hasFocus>>
fileVars == <<graph_filename, nodes>>
clockVars == <<now, nextPoll>>
hostVars == <<hooks, returned, setupCalls>>
statusHistory == <<lastStatus, statusRepeated>>
monitorVars == <<isActive, lastActivityTime, activityTimeout, autoSaveTimeout,
                 idleTimers, saveTimers>>

\* ---------------------------------------------------------------- requests
StatusRequest(status) ==
    [endpoint |-> IF status = "active" THEN SET_ACTIVE ELSE SET_IDLE,
     method |-> "POST", body |-> Null]

AutosaveRequest(filename, workflow) ==
    [endpoint |-> AUTOSAVE, method |-> "POST",
     body |-> Some([workflow |-> workflow, filename |-> filename])]

\* fetch(...): the request is on its way; the history notes status requests
Fetch(m, req) ==
    IF req.endpoint \in {SET_ACTIVE, SET_IDLE}
    THEN [m EXCEPT !.inflight = @ (+) SetToBag({req}),
                   !.lastStatus = Some(req.endpoint),
                   !.statusRepeated = @ \/ m.lastStatus = Some(req.endpoint)]
    ELSE [m EXCEPT !.inflight = @ (+) SetToBag({req})]

\* timers are identified by their deadline; clearTimeout of a timer that has
\* fired or of null does nothing
ClearTimeout(timers, handle) ==
    IF handle = Null THEN timers ELSE timers \ {handle[1]}

\* ------------------------------------------------- the monitor as a record
\* The fields the methods of the class read and write, as one value, so that
\* a handler is the composition of the methods it calls.
Monitor ==
    [isActive |-> isActive, lastActivityTime |-> lastActivityTime,
     activityTimeout |-> activityTimeout, autoSaveTimeout |-> autoSaveTimeout,
     idleTimers |-> idleTimers, saveTimers |-> saveTimers,
     inflight |-> inflight,
     lastStatus |-> lastStatus, statusRepeated |-> statusRepeated]

Commit(m) ==
    /\ isActive' = m.isActive
    /\ lastActivityTime' = m.lastActivityTime
    /\ activityTimeout' = m.activityTimeout
    /\ autoSaveTimeout' = m.autoSaveTimeout
    /\ idleTimers' = m.idleTimers
    /\ saveTimers' = m.saveTimers
    /\ inflight' = m.inflight
    /\ lastStatus' = m.lastStatus
    /\ statusRepeated' = m.statusRepeated

\* setStatus with the idle transition kept local (no request for 'idle')
setStatusActiveOnly(m, status) ==
    IF m.isActive = (status = "active")
    THEN m
    ELSE IF status = "active"
         THEN Fetch([m EXCEPT !.isActive = TRUE], StatusRequest(status))
         ELSE [m EXCEPT !.isActive = FALSE]

\* setStatus without its early return
setStatusAlways(m, status) ==
    Fetch([m EXCEPT !.isActive = (status = "active")], StatusRequest(status))

\* setStatus whose early return only covers 'active'
setStatusIdleUnguarded(m, status) ==
    IF m.isActive /\ status = "active"
    THEN m
    ELSE Fetch([m EXCEPT !.isActive = (status = "active")], StatusRequest(status))

\* setStatus leaving the change to idle to a pending idle timer
\* setStatus naming the state the monitor leaves in its request
setStatusNamesOldState(m, status) ==
    IF m.isActive = (status = "active")
    THEN m
    ELSE Fetch([m EXCEPT !.isActive = (status = "active")],
               StatusRequest(IF status = "active" THEN "idle" ELSE "active"))

setStatusDefersIdle(m, status) ==
    IF m.isActive = (status = "active") \/ (status = "idle" /\ m.idleTimers # {})
    THEN m
    ELSE Fetch([m EXCEPT !.isActive = (status = "active")], StatusRequest(status))

\* setStatus(status), up to its await
setStatus(m, status) ==
    IF m.isActive = (status = "active")
    THEN m
    ELSE Fetch([m EXCEPT !.isActive = (status = "active")], StatusRequest(status))

\* startIdleTimer()
startIdleTimer(m, t) ==
    [m EXCEPT !.idleTimers = ClearTimeout(@, m.activityTimeout)
                                 \cup {t + inactivityThreshold},
              !.activityTimeout = Some(t + inactivityThreshold)]

\* startAutoSaveTimer()
startAutoSaveTimer(m, t) ==
    [m EXCEPT !.saveTimers = @ \cup {t + autoSaveThreshold},
              !.autoSaveTimeout = Some(t + autoSaveThreshold)]

\* onUserActivity that arms the idle timer only when none was armed before
onUserActivityKeepsTimer(m, t, isHidden) ==
    LET m1 == [m EXCEPT !.lastActivityTime = t]
        m2 == IF ~m1.isActive /\ ~isHidden THEN setStatus(m1, "active") ELSE m1
        m4 == IF m2.activityTimeout = Null THEN startIdleTimer(m2, t) ELSE m2
        m5 == [m4 EXCEPT !.saveTimers = ClearTimeout(@, m4.autoSaveTimeout)]
    IN startAutoSaveTimer(m5, t)

\* onUserActivity that restarts the autosave timer without clearing the old one
onUserActivityLeaksSaveTimer(m, t, isHidden) ==
    LET m1 == [m EXCEPT !.lastActivityTime = t]
        m2 == IF ~m1.isActive /\ ~isHidden THEN setStatus(m1, "active") ELSE m1
        m3 == [m2 EXCEPT !.idleTimers = ClearTimeout(@, m2.activityTimeout)]
        m4 == startIdleTimer(m3, t)
    IN startAutoSaveTimer(m4, t)

\* onUserActivity()
onUserActivity(m, t, isHidden) ==
    LET m1 == [m EXCEPT !.lastActivityTime = t]
        m2 == IF ~m1.isActive /\ ~isHidden THEN setStatus(m1, "active") ELSE m1
        m3 == [m2 EXCEPT !.idleTimers = ClearTimeout(@, m2.activityTimeout)]
        m4 == startIdleTimer(m3, t)
        m5 == [m4 EXCEPT !.saveTimers = ClearTimeout(@, m4.autoSaveTimeout)]
    IN startAutoSaveTimer(m5, t)

\* autoSaveWorkflow falling back to the default name for null only (?? for ||)
autoSaveWorkflowNullish(m, name, workflow) ==
    LET filename == IF name # Null THEN name[1] ELSE DefaultFilename
    IN Fetch(m, AutosaveRequest(filename, workflow))

\* autoSaveWorkflow(), up to its await
autoSaveWorkflow(m, name, workflow) ==
    LET filename == IF name # Null /\ name[1] # "" THEN name[1] ELSE DefaultFilename
    IN Fetch(m, AutosaveRequest(filename, workflow))

\* ------------------------------------------------------------- host hooks
\* A host function the extension patches: how many wrappers of the extension
\* are around the host's original, and the marker the outermost function has.
HookNames == {"loadWorkflowFromServer", "clear", "handleFile"}

HostHooks == [h \in HookNames |-> [layers |-> 0, isPatchedByIdleDetector |-> FALSE]]

\* one of the three blocks of setupFilenameTracking
Patch(hook) ==
    IF ~hook.isPatchedByIdleDetector
    THEN [layers |-> hook.layers + 1, isPatchedByIdleDetector |-> TRUE]
    ELSE hook

\* setupFilenameTracking wrapping without looking at the marker
setupFilenameTrackingUnmarked(hs) ==
    [h \in HookNames |-> [layers |-> hs[h].layers + 1, isPatchedByIdleDetector |-> TRUE]]

\* setupFilenameTracking()
setupFilenameTracking(hs) == [h \in HookNames |-> Patch(hs[h])]

\* One call of a patched function: every wrapper runs its own statement once
\* and delegates once, so the host's original runs once.
CallHook(hook) == [wrappers |-> hook.layers, originals |-> 1]

\* ---------------------------------------------------------------- getStatus
\* what the backend may answer to GET /idle_detector/status: a status and a
\* body that parses as JSON (Some) or does not (Null); a rejected fetch has
\* neither
StatusBodies == {"active", "idle"}

StatusReplies ==
    [outcome : {"ok", "not_ok"}, body : {Null} \cup {Some(b) : b \in StatusBodies}]
        \cup {[outcome |-> "error", body |-> Null]}

\* getStatus returning the body whatever response.ok says
getStatusReturnUnchecked(reply) ==
    IF reply.outcome # "error" /\ reply.body # Null THEN reply.body ELSE Null

\* the value getStatus() resolves to
getStatusReturn(reply) ==
    IF reply.outcome = "ok" /\ reply.body # Null THEN reply.body ELSE Null

\* the fields with isActive starting false
NewMonitorIdle ==
    [isActive |-> FALSE, lastActivityTime |-> 0,
     activityTimeout |-> Null, autoSaveTimeout |-> Null,
     idleTimers |-> {}, saveTimers |-> {}, inflight |-> EmptyBag,
     lastStatus |-> Null, statusRepeated |-> FALSE]

\* constructor(): the fields, then setStatus('active') and onUserActivity()
NewMonitor ==
    [isActive |-> TRUE, lastActivityTime |-> 0,
     activityTimeout |-> Null, autoSaveTimeout |-> Null,
     idleTimers |-> {}, saveTimers |-> {}, inflight |-> EmptyBag,
     lastStatus |-> Null, statusRepeated |-> FALSE]

Constructed(isHidden) ==
    onUserActivity(setStatus(NewMonitor, "active"), 0, isHidden)

\* The page may be constructed in a foreground or in a background tab.  The
\* host has a graph on screen; no workflow name is known yet.
Init ==
    /\ now = 0
    /\ nextPoll = pollInterval
    /\ hidden \in BOOLEAN
    /\ hasFocus \in BOOLEAN
    /\ isActive = Constructed(hidden).isActive
    /\ lastActivityTime = Constructed(hidden).lastActivityTime
    /\ activityTimeout = Constructed(hidden).activityTimeout
    /\ autoSaveTimeout = Constructed(hidden).autoSaveTimeout
    /\ idleTimers = Constructed(hidden).idleTimers
    /\ saveTimers = Constructed(hidden).saveTimers
    /\ inflight = Constructed(hidden).inflight
    /\ lastStatus = Constructed(hidden).lastStatus
    /\ statusRepeated = Constructed(hidden).statusRepeated
    /\ hooks = setupFilenameTracking(HostHooks)
    /\ setupCalls = 1
    /\ returned = Null
    /\ graph_filename = Null
    /\ nodes = MaxNodes
    /\ handled = FALSE
    /\ quietSaves = 0
    /\ quietIdles = 0

\* A handler's result is committed when the network has room for what it sent.
Handle(m) ==
    /\ BagCardinality(m.inflight) <= MaxInflight
    /\ Commit(m)
    /\ handled' = TRUE

\* A signal (an event, a host call, a change of focus) starts a new quiet period.
NewPeriod ==
    /\ quietSaves' = 0
    /\ quietIdles' = 0

\* A timer or poll callback belongs to the quiet period it runs in.
SamePeriod(m, saves) ==
    /\ quietSaves' = quietSaves + saves
    /\ quietIdles' = quietIdles + (IF isActive /\ ~m.isActive THEN 1 ELSE 0)

\* ------------------------------------------------------------------ signals
\* mousedown, mousemove, keypress, scroll, touchstart, click
Input ==
    /\ Handle(onUserActivity(Monitor, now, hidden))
    /\ NewPeriod
    /\ UNCHANGED <<hostVars, clockVars, envVars, fileVars>>

\* app.queuePrompt / app.graph.change as wrapped by setupActivityTracking
HostActivity ==
    /\ Handle(onUserActivity(Monitor, now, hidden))
    /\ NewPeriod
    /\ UNCHANGED <<hostVars, clockVars, envVars, fileVars>>

\* visibilitychange, the page having become hidden
PageHidden ==
    /\ ~hidden
    /\ hidden' = TRUE
    /\ Handle(setStatus(Monitor, "idle"))
    /\ NewPeriod
    /\ UNCHANGED <<hostVars, clockVars, hasFocus, fileVars>>

\* visibilitychange, the page having become visible
PageVisible ==
    /\ hidden
    /\ hidden' = FALSE
    /\ Handle(onUserActivity(setStatus(Monitor, "active"), now, FALSE))
    /\ NewPeriod
    /\ UNCHANGED <<hostVars, clockVars, hasFocus, fileVars>>

\* beforeunload (the user may still cancel the unload and stay on the page)
BeforeUnload ==
    /\ Handle(setStatus(Monitor, "idle"))
    /\ NewPeriod
    /\ UNCHANGED <<hostVars, clockVars, envVars, fileVars>>

\* window focus
WindowFocus ==
    /\ hasFocus' = TRUE
    /\ Handle(IF ~isActive
              THEN onUserActivity(setStatus(Monitor, "active"), now, hidden)
              ELSE Monitor)
    /\ NewPeriod
    /\ UNCHANGED <<hostVars, clockVars, hidden, fileVars>>

\* window blur
WindowBlur ==
    /\ hasFocus' = FALSE
    /\ Handle(setStatus(Monitor, "idle"))
    /\ NewPeriod
    /\ UNCHANGED <<hostVars, clockVars, hidden, fileVars>>

\* document.hasFocus() changes without a focus or blur event (the app switch
\* the poll exists for); no handler runs
SilentFocusChange ==
    /\ hasFocus' = ~hasFocus
    /\ NewPeriod
    /\ handled' = TRUE
    /\ UNCHANGED <<hostVars, clockVars, hidden, monitorVars, statusHistory, fileVars, inflight>>

\* ------------------------------------------------------- timers and polling
\* the callback of setupFocusPolling's setInterval
PollCallback(m, t, isHidden, focused) ==
    IF ~focused \/ isHidden
    THEN IF m.isActive THEN setStatus(m, "idle") ELSE m
    ELSE IF ~m.isActive /\ focused /\ ~isHidden
         THEN onUserActivity(setStatus(m, "active"), t, isHidden)
         ELSE m

PollTick ==
    /\ nextPoll <= now
    /\ nextPoll' = nextPoll + pollInterval
    /\ Handle(PollCallback(Monitor, now, hidden, hasFocus))
    /\ SamePeriod(PollCallback(Monitor, now, hidden, hasFocus), 0)
    /\ UNCHANGED <<hostVars, now, envVars, fileVars>>

\* the idle callback checking visibility only
IdleCallbackVisibleOnly(m, isHidden, focused) ==
    IF ~isHidden THEN setStatus(m, "idle") ELSE m

\* the idle callback without its visibility and focus check
IdleCallbackUnguarded(m, isHidden, focused) == setStatus(m, "idle")

\* the callback of startIdleTimer's setTimeout
IdleCallback(m, isHidden, focused) ==
    IF ~isHidden /\ focused THEN setStatus(m, "idle") ELSE m

IdleTimerFire ==
    \E d \in idleTimers :
        LET m == IdleCallback([Monitor EXCEPT !.idleTimers = @ \ {d}],
                              hidden, hasFocus)
        IN /\ d <= now
           /\ Handle(m)
           /\ SamePeriod(m, 0)
           /\ UNCHANGED <<hostVars, clockVars, envVars, fileVars>>

\* the autosave callback saving only while the monitor is active
AutoSaveCallbackWhenActive(m, name, workflow) ==
    IF m.isActive THEN autoSaveWorkflow(m, name, workflow) ELSE m

\* the callback of startAutoSaveTimer's setTimeout
AutoSaveCallback(m, name, workflow) == autoSaveWorkflow(m, name, workflow)

AutoSaveTimerFire ==
    \E d \in saveTimers :
        LET m == AutoSaveCallback([Monitor EXCEPT !.saveTimers = @ \ {d}],
                                  graph_filename, nodes)
        IN /\ d <= now
           /\ Handle(m)
           /\ SamePeriod(m, BagCardinality(m.inflight) - BagCardinality(inflight))
           /\ UNCHANGED <<hostVars, clockVars, envVars, fileVars>>

\* the rest of setStatus / autoSaveWorkflow undoing the change of state when
\* the request failed
ResponseCallbackRollsBack(m, req, outcome) ==
    IF outcome # "ok" /\ req.endpoint \in {SET_ACTIVE, SET_IDLE}
    THEN [m EXCEPT !.inflight = @ (-) SetToBag({req}), !.isActive = ~@]
    ELSE [m EXCEPT !.inflight = @ (-) SetToBag({req})]

\* The rest of setStatus / autoSaveWorkflow after the await: an ok response is
\* parsed and logged, a response that is not ok is logged, a rejected fetch
\* (or a body that does not parse) is caught and logged.
ResponseCallback(m, req, outcome) ==
    [m EXCEPT !.inflight = @ (-) SetToBag({req})]

\* A response (ok, not ok, or a network error) ends the await of setStatus or
\* autoSaveWorkflow.
Outcomes == {"ok", "not_ok", "error"}

Response ==
    \E req \in BagToSet(inflight) :
        /\ req.method = "POST"
        /\ \E m \in {ResponseCallback(Monitor, req, outcome) : outcome \in Outcomes} :
                Handle(m)
        /\ UNCHANGED <<hostVars, clockVars, envVars, fileVars, quietSaves, quietIdles>>

\* would the poll callback change anything in the present state
PollEffective == PollCallback(Monitor, now, hidden, hasFocus) # Monitor

Min(S) == CHOOSE x \in S : \A y \in S : x <= y

\* The clock moves on when no callback is due: by one poll interval, or
\* straight to the next deadline (the polls skipped on the way find the state
\* as it is now and do nothing).  It never passes a pending deadline.
Deadlines ==
    idleTimers \cup saveTimers \cup (IF PollEffective THEN {nextPoll} ELSE {})

Advance(limit) ==
    /\ \A d \in Deadlines : now < d
    /\ \E t \in {now + pollInterval} \cup (IF Deadlines = {} THEN {} ELSE {Min(Deadlines)}) :
        /\ t <= limit * pollInterval
        /\ \A d \in Deadlines : t <= d
        /\ now' = t
        /\ nextPoll' = IF nextPoll < t THEN t ELSE nextPoll
    /\ handled' = TRUE
    /\ UNCHANGED <<hostVars, envVars, fileVars, monitorVars, statusHistory, inflight, quietSaves, quietIdles>>

\* ------------------------------------------------------------ workflow files
\* app.loadWorkflowFromServer as wrapped by setupFilenameTracking; the host's
\* loader then puts the workflow's graph on screen
LoadWorkflowFromServer ==
    \E filename \in FileNames, n \in 0..MaxNodes :
        /\ graph_filename' = IF CallHook(hooks["loadWorkflowFromServer"]).wrappers > 0
                             THEN Some(filename)
                             ELSE graph_filename
        /\ nodes' = n
        /\ NewPeriod
        /\ handled' = TRUE
        /\ UNCHANGED <<hostVars, clockVars, envVars, monitorVars, statusHistory, inflight>>

\* app.graph.clear as wrapped by setupFilenameTracking
GraphClear ==
    /\ graph_filename' = IF CallHook(hooks["clear"]).wrappers > 0
                         THEN Null
                         ELSE graph_filename
    /\ nodes' = 0
    /\ NewPeriod
    /\ handled' = TRUE
    /\ UNCHANGED <<hostVars, clockVars, envVars, monitorVars, statusHistory, inflight>>

\* app.handleFile as wrapped by setupFilenameTracking: the wrapper only logs;
\* the host's handler loads the file and may record its name
HandleFile ==
    \E name \in FileNames, n \in 0..MaxNodes, hostSetsName \in BOOLEAN :
        /\ graph_filename' = IF hostSetsName THEN Some(name) ELSE graph_filename
        /\ nodes' = n
        /\ NewPeriod
        /\ handled' = TRUE
        /\ UNCHANGED <<hostVars, clockVars, envVars, monitorVars, statusHistory, inflight>>

\* setupFilenameTracking() called once more
SetupFilenameTracking ==
    /\ setupCalls < MaxSetupCalls
    /\ hooks' = setupFilenameTracking(hooks)
    /\ setupCalls' = setupCalls + 1
    /\ handled' = TRUE
    /\ UNCHANGED <<clockVars, envVars, fileVars, monitorVars, statusHistory,
                   inflight, returned, quietSaves, quietIdles>>

\* ---------------------------------------------------------------- getStatus
StatusRequestGet == [endpoint |-> STATUS, method |-> "GET", body |-> Null]

\* getStatus(), up to its await
GetStatus ==
    /\ Handle(Fetch(Monitor, StatusRequestGet))
    /\ UNCHANGED <<hostVars, clockVars, envVars, fileVars, quietSaves, quietIdles>>

\* getStatus() after its await: the backend's reply decides the value returned
GetStatusReturns ==
    \E reply \in StatusReplies :
        /\ BagIn(StatusRequestGet, inflight)
        /\ Handle([Monitor EXCEPT !.inflight = @ (-) SetToBag({StatusRequestGet})])
        /\ returned' = Some([reply |-> reply, value |-> getStatusReturn(reply)])
        /\ UNCHANGED <<hooks, setupCalls, clockVars, envVars, fileVars,
                       quietSaves, quietIdles>>

\* ------------------------------------------------------------ specifications
Signal ==
    \/ Input
    \/ HostActivity
    \/ PageHidden
    \/ PageVisible
    \/ BeforeUnload
    \/ WindowFocus
    \/ WindowBlur
    \/ SilentFocusChange

Timed ==
    \/ PollTick
    \/ IdleTimerFire
    \/ AutoSaveTimerFire
    \/ Response

Next ==
    \/ Input
    \/ HostActivity
    \/ PageHidden
    \/ PageVisible
    \/ BeforeUnload
    \/ WindowFocus
    \/ WindowBlur
    \/ SilentFocusChange
    \/ PollTick
    \/ IdleTimerFire
    \/ AutoSaveTimerFire
    \/ Response
    \/ Advance(MaxTicks)

Spec == Init /\ [][Next]_vars

\* The same monitor with the host loading, clearing and uploading workflows,
\* over the first MaxFileTicks poll intervals: long enough for the autosave
\* timer, too short for the idle timer, which stays pending throughout.
NextFile ==
    \/ Input
    \/ HostActivity
    \/ PageHidden
    \/ PageVisible
    \/ BeforeUnload
    \/ WindowFocus
    \/ WindowBlur
    \/ SilentFocusChange
    \/ PollTick
    \/ AutoSaveTimerFire
    \/ Response
    \/ Advance(MaxFileTicks)
    \/ LoadWorkflowFromServer
    \/ GraphClear
    \/ HandleFile

SpecFile == Init /\ [][NextFile]_vars

\* The monitor while setupFilenameTracking is called again and the patched
\* host functions are used, over the same short horizon.
NextSetup ==
    \/ SetupFilenameTracking
    \/ LoadWorkflowFromServer
    \/ GraphClear
    \/ HandleFile
    \/ Input
    \/ AutoSaveTimerFire
    \/ Response
    \/ Advance(MaxFileTicks)

SpecSetup == Init /\ [][NextSetup]_vars

\* The monitor while some caller polls getStatus, over the same short horizon.
NextStatus ==
    \/ GetStatus
    \/ GetStatusReturns
    \/ Input
    \/ WindowBlur
    \/ WindowFocus
    \/ PollTick
    \/ AutoSaveTimerFire
    \/ Response
    \/ Advance(MaxFileTicks)

SpecStatus == Init /\ [][NextStatus]_vars

TypeOK ==
    /\ now \in 0..(MaxTicks * pollInterval)
    /\ nextPoll \in {now, now + pollInterval}
    /\ isActive \in BOOLEAN
    /\ BagCardinality(inflight) <= MaxInflight
    /\ hooks \in [HookNames -> [layers : 0..MaxSetupCalls, isPatchedByIdleDetector : BOOLEAN]]
    /\ setupCalls \in 1..MaxSetupCalls
    /\ returned \in {Null} \cup {Some(r) : r \in [reply : StatusReplies,
                                                  value : {Null} \cup {Some(b) : b \in StatusBodies}]}
    /\ lastStatus \in {Null, Some(SET_ACTIVE), Some(SET_IDLE)}
    /\ statusRepeated \in BOOLEAN

\* ------------------------------------------------------- what a step sent
SetActivePost == StatusRequest("active")
SetIdlePost == StatusRequest("idle")

AutosavePosts ==
    {AutosaveRequest(f, n) : f \in FileNames \cup {DefaultFilename}, n \in 0..MaxNodes}

\* copies of req issued by the step (negative when its response arrived)
Issued(req) == CopiesIn(req, inflight') - CopiesIn(req, inflight)

IssuedTotal == BagCardinality(inflight') - BagCardinality(inflight)

AutosaveInFlight == {r \in BagToSet(inflight) : r.endpoint = AUTOSAVE}

\* ------------------------------------------------------------------ claims

C2_SettlesIdleOnce ==
    [][(~hidden /\ hasFocus /\ quietIdles >= 1 /\ ~isActive) =>
            (quietIdles' = 0 \/ (~isActive' /\ quietIdles' <= 1))]_vars

\* C3: a page-visible or window-focus signal handled while idle leaves the
\* monitor active and issues exactly one request, POST set_active; the same
\* signal handled while active (the second of two back to back, the first
\* request still in flight or not) issues nothing.
C3_OneSetActiveOnReturn ==
    [][(PageVisible \/ WindowFocus) =>
            /\ isActive'
            /\ ~isActive => (Issued(SetActivePost) = 1 /\ IssuedTotal = 1)
            /\ isActive => IssuedTotal = 0]_vars

\* C3 witness: the page has just become visible and focused again, the monitor
\* is active and the one set_active request has not been answered yet.
C3_Witness ==
    /\ isActive /\ ~hidden /\ hasFocus
    /\ now > 0 /\ lastActivityTime = now
    /\ CopiesIn(SetActivePost, inflight) = 1
    /\ BagCardinality(inflight) = 1

\* C4: right after construction isActive is true and no request has been
\* issued.
C4_ConstructedActiveSilent ==
    ~handled => (isActive /\ BagCardinality(inflight) = 0)

\* C4 witness: the constructed monitor, both timers armed, nothing handled yet.
C4_Witness ==
    /\ ~handled /\ isActive
    /\ idleTimers = {inactivityThreshold} /\ saveTimers = {autoSaveThreshold}

\* C5: the idle timer takes isActive to false no earlier than the idle
\* threshold after the last activity mark.
C5_NoIdleBeforeLastMarkPlusThreshold ==
    [][(IdleTimerFire /\ isActive /\ ~isActive') =>
            now >= lastActivityTime + inactivityThreshold]_vars

\* C5 witness: the timer made the monitor idle, after a mark later than the
\* one of construction had re-armed it.
C5_Witness ==
    /\ ~isActive /\ quietIdles = 1
    /\ lastActivityTime > 0
    /\ now = lastActivityTime + inactivityThreshold

\* C6: setStatus(s) with isActive already equal to (s = 'active') changes no
\* field and no timer and issues no request: as a function in every reachable
\* state, and in the handlers that are one such call (hidden, blur and unload
\* while idle).
C6_SetStatusSameIsNoOp ==
    /\ [](\A status \in {"active", "idle"} :
            (isActive = (status = "active")) => setStatus(Monitor, status) = Monitor)
    /\ [][(~isActive /\ (PageHidden \/ WindowBlur \/ BeforeUnload)) =>
            UNCHANGED <<monitorVars, inflight>>]_vars

\* C6 witness: idle, the page hidden and unfocused (the later of the two
\* signals called setStatus('idle') on an idle monitor), nothing in flight.
C6_Witness ==
    /\ ~isActive /\ hidden /\ ~hasFocus /\ handled
    /\ BagCardinality(inflight) = 0

\* C7 as stated: no autosave request carries a workflow of zero nodes.
C7_EmptyWorkflowNotPosted ==
    \A r \in AutosaveInFlight : r.body[1].workflow > 0

\* C8: the filename of every autosave request issued is not empty; it is
\* app.graph_filename when that is set and not empty, "autosave.json" when it
\* is null (nothing loaded, or cleared since) or empty.
C8_AutosaveFilename ==
    [][\A r \in AutosavePosts : Issued(r) > 0 =>
            /\ r.body[1].filename # ""
            /\ graph_filename = Null => r.body[1].filename = "autosave.json"
            /\ graph_filename = Some("") => r.body[1].filename = "autosave.json"
            /\ graph_filename \notin {Null, Some("")} =>
                    r.body[1].filename = graph_filename[1]]_vars

\* C8 witness: a workflow was loaded under the empty name and its autosave,
\* under the fallback name, is in flight.
C8_Witness ==
    /\ graph_filename = Some("")
    /\ \E r \in AutosaveInFlight : r.body[1].filename = DefaultFilename

\* C9: the autosave timer stays pending, its deadline at the last mark plus
\* the autosave threshold, until it fires; no step that leaves the last mark
\* alone cancels or moves it; and when it fires one autosave request is
\* issued whether isActive is true or false.
C9_AutosaveIndependentOfState ==
    /\ [](/\ saveTimers \subseteq {lastActivityTime + autoSaveThreshold}
          /\ now < lastActivityTime + autoSaveThreshold => saveTimers # {})
    /\ [][/\ (lastActivityTime' = lastActivityTime /\ ~AutoSaveTimerFire) =>
                UNCHANGED <<saveTimers, autoSaveTimeout>>
          /\ AutoSaveTimerFire =>
                /\ now = lastActivityTime + autoSaveThreshold
                /\ IssuedTotal = 1
                /\ \E r \in AutosavePosts : Issued(r) = 1]_vars

\* C9 witness: a blur made the monitor idle after the last mark, and the
\* autosave went out at its deadline all the same.
C9_Witness ==
    /\ ~isActive /\ ~hasFocus /\ quietSaves = 1
    /\ now = lastActivityTime + autoSaveThreshold
    /\ AutosaveInFlight # {}

\* C10 as stated, its upper half: with a non-empty workflow, at most one
\* autosave request is issued in a quiet period with the page visible and
\* focused.
C10_OneAutosavePerQuietPeriod ==
    (~hidden /\ hasFocus /\ nodes > 0) => quietSaves <= 1

\* C11: a page-hidden, window-blur or page-unload signal leaves isActive false,
\* whatever the state before and whether or not an idle timer is pending.
C11_HiddenBlurUnloadIdle ==
    [][(PageHidden \/ WindowBlur \/ BeforeUnload) => ~isActive']_vars

\* C11 witness: the page was hidden and the monitor is idle while its idle
\* timer is still pending, the deadline in the future.
C11_Witness ==
    /\ ~isActive /\ hidden /\ quietIdles = 0
    /\ idleTimers # {} /\ \A d \in idleTimers : now < d

\* C15: at most one idle timer and at most one autosave timer is pending, and
\* a pending timer is the one the monitor holds the handle of (no timer armed
\* earlier is left to fire).
C15_OneTimerOfEachKind ==
    /\ Cardinality(idleTimers) <= 1
    /\ Cardinality(saveTimers) <= 1
    /\ \A d \in idleTimers : activityTimeout = Some(d)
    /\ \A d \in saveTimers : autoSaveTimeout = Some(d)

\* C15 witness: both timers pending after a mark later than construction's,
\* each at the deadline of that mark.
C15_Witness ==
    /\ lastActivityTime > 0
    /\ idleTimers = {lastActivityTime + inactivityThreshold}
    /\ saveTimers = {lastActivityTime + autoSaveThreshold}

\* C16 as stated: at most one autosave request awaits its response at any
\* time.
C16_NoOverlappingAutosave ==
    BagCardinality([r \in AutosaveInFlight |-> CopiesIn(r, inflight)]) <= 1

\* C17 as stated: a step that takes isActive from true to false is the idle
\* timer firing with the page visible and focused, or a page-hidden, blur or
\* unload signal.
C17_IdleOnlyByTimerOrSignal ==
    [][(isActive /\ ~isActive') =>
            \/ (~hidden /\ hasFocus /\ IdleTimerFire)
            \/ PageHidden
            \/ WindowBlur
            \/ BeforeUnload]_vars

\* C17 amended: a step that takes isActive from true to false is the idle
\* timer firing with the page visible and focused, a page-hidden, blur or
\* unload signal, or the periodic poll finding the page hidden or without
\* focus.
C17_IdleByTimerSignalOrPoll ==
    [][(isActive /\ ~isActive') =>
            \/ (~hidden /\ hasFocus /\ IdleTimerFire)
            \/ PageHidden
            \/ WindowBlur
            \/ BeforeUnload
            \/ ((hidden \/ ~hasFocus) /\ PollTick)]_vars

\* C17 witness: focus went without an event and the poll made the monitor
\* idle.
C17_Witness ==
    /\ ~isActive /\ ~hidden /\ ~hasFocus
    /\ quietIdles = 1 /\ quietSaves = 0
    /\ idleTimers # {}

\* C18: the idle timer firing with the page hidden or without focus changes
\* no field of the monitor, issues no request and arms no timer; it only
\* leaves the set of pending timers.
C18_DiscardedExpiryCommitsNothing ==
    [][((hidden \/ ~hasFocus) /\ IdleTimerFire) =>
            /\ UNCHANGED <<isActive, lastActivityTime, activityTimeout,
                           autoSaveTimeout, saveTimers, inflight>>
            /\ idleTimers' \subseteq idleTimers]_vars

\* C18 witness: the monitor is active and unfocused and its idle timer has
\* fired and gone, at the deadline.
C18_Witness ==
    /\ isActive /\ ~hasFocus /\ idleTimers = {}
    /\ now = lastActivityTime + inactivityThreshold

\* C20 as stated: an active monitor on a visible and focused page has an idle
\* timer pending.
C20_ActiveHasIdleTimer ==
    (isActive /\ ~hidden /\ hasFocus) => idleTimers # {}

\* C12: whatever the outcome of a request, the code that follows the await
\* leaves the monitor as an ok response does and sends nothing (no retry); a
\* step in which a response arrives ends one request and changes neither the
\* fields, the timers nor the tracked filename; no step issues more than one
\* request.
C12_FailuresSwallowed ==
    /\ [](\A req \in BagToSet(inflight), outcome \in Outcomes :
            /\ ResponseCallback(Monitor, req, outcome) = ResponseCallback(Monitor, req, "ok")
            /\ BagCardinality(ResponseCallback(Monitor, req, outcome).inflight)
                   = BagCardinality(inflight) - 1)
    /\ [][/\ IssuedTotal <= 1
          /\ IssuedTotal < 0 =>
                (IssuedTotal = -1 /\ UNCHANGED <<monitorVars, fileVars>>)]_vars

\* C12 witness: the autosave of a quiet period was sent and answered; nothing
\* is in flight and no timer was armed again.
C12_Witness ==
    /\ quietSaves = 1 /\ BagCardinality(inflight) = 0
    /\ saveTimers = {} /\ now = lastActivityTime + autoSaveThreshold

\* C13: a getStatus call that returned gave the parsed body when the reply
\* was OK with a body that parses, and null for a non-OK reply, a rejected
\* fetch and a body that does not parse; every reply gives a value (nothing
\* is thrown); neither the call nor its return changes isActive, the timers
\* or any other field of the monitor.
C13_GetStatusReturnsBodyOrNull ==
    /\ [](/\ returned # Null =>
                returned[1].value =
                    IF returned[1].reply.outcome = "ok" /\ returned[1].reply.body # Null
                    THEN returned[1].reply.body
                    ELSE Null
          /\ \A reply \in StatusReplies :
                getStatusReturn(reply) \in {Null} \cup {Some(b) : b \in StatusBodies})
    /\ [][(returned' # returned \/ Issued(StatusRequestGet) # 0) =>
                UNCHANGED <<monitorVars, fileVars>>]_vars

\* C13 witness: the backend answered a non-OK reply whose body parses,
\* getStatus returned null, and the monitor is still active with its idle
\* timer pending.
C13_Witness ==
    /\ returned = Some([reply |-> [outcome |-> "not_ok", body |-> Some("idle")],
                        value |-> Null])
    /\ isActive /\ idleTimers # {}

\* C14: after any number of calls of setupFilenameTracking every host
\* function carries the marker and one wrapper, so a call of it runs the
\* wrapper's statement once (the filename assignment of the loader and of
\* clear) and the host's original once, as after the first call.
C14_WrappedOnce ==
    \A h \in HookNames :
        /\ hooks[h] = [layers |-> 1, isPatchedByIdleDetector |-> TRUE]
        /\ CallHook(hooks[h]) = [wrappers |-> 1, originals |-> 1]

\* C14 witness: setupFilenameTracking ran three times and a workflow loaded
\* from the server through the patched loader is tracked.
C14_Witness ==
    /\ setupCalls >= 3
    /\ graph_filename = Some("foo.json")
    /\ hooks["loadWorkflowFromServer"].layers = 1

\* C19: no two status requests in a row name the same endpoint, and the last
\* status request issued names the current isActive (set_active when true,
\* set_idle when false); before the first one the monitor is active.
C19_StatusRequestsAlternate ==
    /\ ~statusRepeated
    /\ lastStatus = Null => isActive
    /\ lastStatus # Null => (isActive <=> lastStatus = Some(SET_ACTIVE))

\* C19 witness: the monitor went idle, active and idle again; three status
\* requests were issued and the last names idle.
C19_Witness ==
    /\ ~isActive /\ lastStatus = Some(SET_IDLE)
    /\ quietIdles = 0 /\ hidden /\ ~hasFocus
    /\ CopiesIn(SetIdlePost, inflight) = 2

====
